---- MODULE Spec2Model ----
(***************************************************************************)
(* Model of the AR tracing app (src/unnamed/part_000): the overlay          *)
(* transform, the touch gesture handlers, the control buttons, the image    *)
(* ingestion callbacks, the camera start and the render loop.               *)
(*                                                                          *)
(* JavaScript numbers are modelled as exact rationals <<n, d>> in lowest     *)
(* terms with d > 0; <<1, 0>> is +Infinity (the result of x / 0 for x > 0). *)
(* Floating-point rounding is not modelled.                                 *)
(***************************************************************************)
EXTENDS Integers, Sequences, FiniteSets, TLC

\* ---------------------------------------------------------------- bounds

\* Date.now() when the page is loaded, and how long the clock is followed.
StartTime == 1000
MaxElapsed == 300
\* Largest numerator and denominators the transform may take: an event that
\* leaves a scale within [0.1, 8] or a finite position that does not fit is
\* not explored.  Values out of range or infinite are never cut off.
MaxNum == 1600
MaxDen == 4
MaxScaleDen == 121
\* In-flight image selections and camera requests explored at once.
MaxPending == 2
MaxCamRequests == 1
\* User input events (touches, clicks, resizes) followed in one run.
MaxEvents == 7

\* ------------------------------------------------------- program constants

DoubleTapMs == 300
DoubleTapRadius == 30
maxDim == 4096

\* ------------------------------------------------------------ arithmetic

Abs(n) == IF n < 0 THEN -n ELSE n

RECURSIVE GCD(_, _)
GCD(a, b) == IF b = 0 THEN a ELSE GCD(b, a % b)

\* The rational n / d in lowest terms (d = 0, n > 0 gives +Infinity).
Rat(n, d) ==
  LET s == IF d < 0 THEN -1 ELSE 1
      g == GCD(Abs(n), Abs(d))
  IN  <<(s * n) \div g, (s * d) \div g>>

R(i) == <<i, 1>>
Infinity == <<1, 0>>

RAdd(a, b) == Rat(a[1] * b[2] + b[1] * a[2], a[2] * b[2])
RSub(a, b) == Rat(a[1] * b[2] - b[1] * a[2], a[2] * b[2])
RMul(a, b) == Rat(a[1] * b[1], a[2] * b[2])
RDiv(a, b) == Rat(a[1] * b[2], a[2] * b[1])
RLt(a, b) == a[1] * b[2] < b[1] * a[2]
RLe(a, b) == a[1] * b[2] <= b[1] * a[2]
MathMin(a, b) == IF RLt(b, a) THEN b ELSE a
MathMax(a, b) == IF RLt(a, b) THEN b ELSE a

\* Math.round: the nearest integer, ties toward +Infinity.
MathRound(a) == (2 * a[1] + a[2]) \div (2 * a[2])

\* Math.hypot on the integer offsets the model draws: all of them have an
\* integer length (see TouchConfigs), which is found by search.
MathHypot(dx, dy) ==
  CHOOSE r \in 0 .. (Abs(dx) + Abs(dy)) : r * r = dx * dx + dy * dy

PositionFits(a) == a[2] = 0 \/ (Abs(a[1]) <= MaxNum /\ a[2] <= MaxDen)
ScaleFits(a) ==
  \/ a[2] = 0
  \/ a[1] * 10 < a[2]
  \/ a[1] > 8 * a[2]
  \/ (a[1] <= MaxNum /\ a[2] <= MaxScaleDen)

\* ----------------------------------------------------------------- state

VARIABLES
  booted,                 \* the window load handler has run
  appState,               \* [hasImage, cameraActive, uiHidden]
  overlayState,           \* [scale, x, y, rotation, locked]
  viewportWidth, viewportHeight,
  overlayImage, overlayReady,
  animationFrameId,       \* 0 is null, 1 a pending frame callback
  lastTapTime, lastTapX, lastTapY,
  panStartX, panStartY, overlayStartX, overlayStartY,
  pinchStartDistance, pinchStartScale,
  pinchStartCenterX, pinchStartCenterY,
  overlayStartXForPinch, overlayStartYForPinch,
  window,                 \* [innerWidth, innerHeight] of the browser window
  now,                    \* Date.now()
  touches,                \* the touch points now on the surface (e.touches)
  loads,                  \* image selections in flight: [file, stage]
  camRequests,            \* getUserMedia / video.play promises in flight
  canvas,                 \* the image last painted by drawOverlay, or Null
  lastOp,                 \* the handler that ran last
  events,                 \* user input events handled so far
  pendingFrames,          \* frame callbacks the browser holds for renderLoop
  filterState,            \* [brightness, contrast, opacity]
  fxState,                \* [grayscale, invert]
  sliders,                \* the value strings of the three range inputs
  doubleTaps              \* double taps detected so far

tapVars == <<lastTapTime, lastTapX, lastTapY>>
panVars == <<panStartX, panStartY, overlayStartX, overlayStartY>>
pinchOriginVars ==
  <<pinchStartScale, pinchStartCenterX, pinchStartCenterY,
    overlayStartXForPinch, overlayStartYForPinch>>
pinchVars == <<pinchStartDistance, pinchOriginVars>>
gestureVars == <<tapVars, panVars, pinchVars>>
viewportVars == <<viewportWidth, viewportHeight>>
imageVars == <<overlayImage, overlayReady>>
envVars == <<window, now, touches, loads, camRequests>>
filterVars == <<filterState, fxState, sliders>>
vars ==
  <<booted, appState, overlayState, viewportVars, imageVars, animationFrameId,
    gestureVars, envVars, canvas, lastOp, events, pendingFrames, filterVars,
    doubleTaps>>

\* One more user input event is handled.
UserEvent == events < MaxEvents /\ events' = events + 1

\* ---------------------------------------------------------------- inputs

\* Window sizes (portrait and landscape).
WindowSizes ==
  { [innerWidth |-> 400, innerHeight |-> 800],
    [innerWidth |-> 800, innerHeight |-> 400] }

\* Image files by natural size: two within maxDim (one exactly at it) and
\* four over it (one by a single pixel, one whose short edge scales to a
\* half-integer).
Files ==
  { [name |-> "small", w |-> 2000, h |-> 1000],
    [name |-> "edge",  w |-> 4096, h |-> 3000],
    [name |-> "over",  w |-> 4097, h |-> 4096],
    [name |-> "wide",  w |-> 8000, h |-> 6000],
    [name |-> "tall",  w |-> 3333, h |-> 5000],
    [name |-> "half",  w |-> 8192, h |-> 4097] }

\* The range inputs and the value strings they can hold, as sequences of
\* characters.
SliderNames == {"brightness", "contrast", "opacity"}
SliderValues ==
  { <<"1">>, <<"0", ".", "7">>, <<"0", ".", "3", "5">>, <<"1", ".", "5">> }

\* Clock advances between events, in ms.
TickSteps == {150}

\* Finger positions (clientX, clientY).  Single fingers are 20, 30 and 10
\* apart around (200, 400); every pair is at an integer distance.
PA == <<200, 400>>
PB == <<200, 420>>
PC == <<200, 430>>
PD == <<150, 400>>
TouchConfigs ==
  { <<PA>>, <<PB>>, <<PC>>, <<PD>>,
    <<PD, <<250, 400>>>>,            \* 100 apart, midpoint (200, 400)
    <<<<100, 400>>, <<300, 400>>>>,  \* 200 apart, midpoint (200, 400)
    <<PD, <<270, 560>>>>,            \* 200 apart, midpoint (210, 480)
    <<PA, PA>>,                      \* coincident fingers
    <<PD, <<250, 400>>, PA>> }       \* three fingers

Null == [file |-> "null", w |-> 0, h |-> 0, complete |-> FALSE, scaled |-> FALSE]

\* --------------------------------------------------- the code's functions

resetOverlayTransformUnlock(os, vw, vh) ==
  [os EXCEPT !.scale = R(1), !.x = Rat(vw, 2), !.y = Rat(vh, 2),
             !.locked = FALSE]

\* resetOverlayTransform
resetOverlayTransform(os, vw, vh) ==
  [os EXCEPT !.scale = R(1), !.x = Rat(vw, 2), !.y = Rat(vh, 2)]

ClampScaleNoMax(s) == MathMax(Rat(1, 10), s)

\* Math.max(0.1, Math.min(8, newScale))
ClampScale(s) == MathMax(Rat(1, 10), MathMin(R(8), s))

\* zoomInBtn: Math.min(8, scale * 1.1)
ZoomInScale(s) == MathMin(R(8), RMul(s, Rat(11, 10)))

\* zoomOutBtn: Math.max(0.1, scale * (1 / 1.1))
ZoomOutScale(s) == MathMax(Rat(1, 10), RMul(s, RDiv(R(1), Rat(11, 10))))

\* A zoom button that does not look at the lock.
ZoomAllowedNoLock == overlayReady

\* The zoom buttons' early return.
ZoomAllowed == overlayReady /\ ~overlayState.locked

IsDoubleTapInclusive(dt, dist2) ==
  dt <= DoubleTapMs /\ dist2 <= DoubleTapRadius * DoubleTapRadius

\* The double-tap test of handleTouchStart.
IsDoubleTap(dt, dist2) ==
  dt < DoubleTapMs /\ dist2 < DoubleTapRadius * DoubleTapRadius

\* Math.hypot(dx, dy) || 1 of two touch points
FingerDistance(t0, t1) ==
  LET d == MathHypot(t1[1] - t0[1], t1[2] - t0[2])
  IN  IF d = 0 THEN 1 ELSE d

\* A two-finger touch-move that anchors at the current translation instead
\* of the one recorded at pinch start.
PinchTransformDrift(os, t0, t1) ==
  LET dist == FingerDistance(t0, t1)
      newScale == ClampScale(RMul(RDiv(R(dist), R(pinchStartDistance)),
                                  pinchStartScale))
      centerX == Rat(t0[1] + t1[1], 2)
      centerY == Rat(t0[2] + t1[2], 2)
      worldX == RDiv(RSub(centerX, os.x), pinchStartScale)
      worldY == RDiv(RSub(centerY, os.y), pinchStartScale)
  IN  [os EXCEPT !.scale = newScale,
                 !.x = RSub(centerX, RMul(worldX, newScale)),
                 !.y = RSub(centerY, RMul(worldY, newScale))]

\* A two-finger touch-move that scales the current scale instead of the one
\* recorded at pinch start.
PinchTransformIncremental(os, t0, t1) ==
  LET dist == FingerDistance(t0, t1)
      newScale == ClampScale(RMul(RDiv(R(dist), R(pinchStartDistance)),
                                  os.scale))
      centerX == Rat(t0[1] + t1[1], 2)
      centerY == Rat(t0[2] + t1[2], 2)
      worldX == RDiv(RSub(centerX, overlayStartXForPinch), pinchStartScale)
      worldY == RDiv(RSub(centerY, overlayStartYForPinch), pinchStartScale)
  IN  [os EXCEPT !.scale = newScale,
                 !.x = RSub(centerX, RMul(worldX, newScale)),
                 !.y = RSub(centerY, RMul(worldY, newScale))]

\* The transform a two-finger touch-move writes.
PinchTransform(os, t0, t1) ==
  LET dist == FingerDistance(t0, t1)
      newScale == ClampScale(RMul(RDiv(R(dist), R(pinchStartDistance)),
                                  pinchStartScale))
      centerX == Rat(t0[1] + t1[1], 2)
      centerY == Rat(t0[2] + t1[2], 2)
      worldX == RDiv(RSub(centerX, overlayStartXForPinch), pinchStartScale)
      worldY == RDiv(RSub(centerY, overlayStartYForPinch), pinchStartScale)
  IN  [os EXCEPT !.scale = newScale,
                 !.x = RSub(centerX, RMul(worldX, newScale)),
                 !.y = RSub(centerY, RMul(worldY, newScale))]

\* A one-finger touch-move that displaces the current position instead of
\* the one recorded at touch-start.
PanTransformRelative(os, t) ==
  [os EXCEPT !.x = RAdd(os.x, R(t[1] - panStartX)),
             !.y = RAdd(os.y, R(t[2] - panStartY))]

\* The transform a one-finger touch-move writes.
PanTransform(os, t) ==
  [os EXCEPT !.x = RAdd(overlayStartX, R(t[1] - panStartX)),
             !.y = RAdd(overlayStartY, R(t[2] - panStartY))]

Largest(w, h) == IF w > h THEN w ELSE h

\* The decoded image of a file.
DecodedImage(f) ==
  [file |-> f.name, w |-> f.w, h |-> f.h, complete |-> TRUE, scaled |-> FALSE]

\* A downscale that fits the width to maxDim whatever the longest edge is.
createDownscaledByWidth(img, available) ==
  IF Largest(img.w, img.h) <= maxDim
  THEN img
  ELSE LET scale == Rat(maxDim, img.w)
       IN  [file |-> img.file,
            w |-> MathRound(RMul(R(img.w), scale)),
            h |-> MathRound(RMul(R(img.h), scale)),
            complete |-> available, scaled |-> TRUE]

\* createDownscaledImageIfNeeded; `available` is scaledImg.complete right
\* after its src is set, which the browser decides.
createDownscaledImageIfNeeded(img, available) ==
  IF Largest(img.w, img.h) <= maxDim
  THEN img
  ELSE LET scale == Rat(maxDim, Largest(img.w, img.h))
       IN  [file |-> img.file,
            w |-> MathRound(RMul(R(img.w), scale)),
            h |-> MathRound(RMul(R(img.h), scale)),
            complete |-> available, scaled |-> TRUE]

\* The guard of drawOverlay and what it paints.
DrawGuard(img, ready, hasImage) == ready /\ img # Null /\ hasImage
drawOverlay(img, ready, hasImage) ==
  IF DrawGuard(img, ready, hasImage) THEN img ELSE Null

TransformFits(os) ==
  ScaleFits(os.scale) /\ PositionFits(os.x) /\ PositionFits(os.y)

\* ------------------------------------------------------------------ Init

\* The state once the script has been evaluated, before the load event.
Init ==
  /\ booted = FALSE
  /\ appState = [hasImage |-> FALSE, cameraActive |-> FALSE, uiHidden |-> FALSE]
  /\ overlayState =
       [scale |-> R(1), x |-> R(0), y |-> R(0), rotation |-> 0, locked |-> FALSE]
  /\ viewportWidth = 0 /\ viewportHeight = 0
  /\ overlayImage = Null /\ overlayReady = FALSE
  /\ animationFrameId = 0
  /\ lastTapTime = 0 /\ lastTapX = 0 /\ lastTapY = 0
  /\ panStartX = 0 /\ panStartY = 0
  /\ overlayStartX = R(0) /\ overlayStartY = R(0)
  /\ pinchStartDistance = 0 /\ pinchStartScale = R(1)
  /\ pinchStartCenterX = R(0) /\ pinchStartCenterY = R(0)
  /\ overlayStartXForPinch = R(0) /\ overlayStartYForPinch = R(0)
  /\ window \in WindowSizes
  /\ now = StartTime
  /\ touches = <<>>
  /\ loads = {}
  /\ camRequests = 0
  /\ canvas = Null
  /\ lastOp = "init"
  /\ events = 0
  /\ pendingFrames = 0
  /\ filterState =
       [brightness |-> R(1), contrast |-> R(1), opacity |-> Rat(7, 10)]
  /\ fxState = [grayscale |-> FALSE, invert |-> FALSE]
  /\ sliders \in [SliderNames -> SliderValues]
  /\ doubleTaps = 0

\* --------------------------------------------------------- boot, landing

\* window.requestAnimationFrame: the handle of the callback it queues, which
\* differs from the handle of the callback that is running (0 is null).
requestAnimationFrame(id) == IF id = 1 THEN 2 ELSE 1

\* A startRenderLoop that requests a frame however often it is called.
FramesRequestedAlways(id) == 1

\* startRenderLoop: the callbacks it queues, none when one is pending.
FramesRequested(id) == IF id # 0 THEN 0 ELSE 1

\* startRenderLoop: the handle it leaves in animationFrameId
startRenderLoop(id) == IF id # 0 THEN id ELSE 1

\* The digits of a decimal numeral.
Digits == <<"0", "1", "2", "3", "4", "5", "6", "7", "8", "9">>
IsDigit(c) == \E i \in 1..10 : Digits[i] = c
DigitValue(c) == (CHOOSE i \in 1..10 : Digits[i] = c) - 1

\* The number read from position i of str on: acc / scale so far, `frac`
\* once the decimal point has been passed.  Reading stops at the first
\* character that cannot continue the numeral.
RECURSIVE ParseFrom(_, _, _, _, _)
ParseFrom(str, i, acc, scale, frac) ==
  IF i > Len(str) THEN Rat(acc, scale)
  ELSE IF IsDigit(str[i])
       THEN ParseFrom(str, i + 1, 10 * acc + DigitValue(str[i]),
                      IF frac THEN 10 * scale ELSE scale, frac)
       ELSE IF str[i] = "." /\ ~frac
            THEN ParseFrom(str, i + 1, acc, scale, TRUE)
            ELSE Rat(acc, scale)

\* parseFloat on the value string of a range input (an unsigned decimal).
parseFloat(str) == ParseFrom(str, 1, 0, 1, FALSE)

\* resetFilters
resetFilters ==
  /\ filterState' =
       [brightness |-> R(1), contrast |-> R(1), opacity |-> Rat(7, 10)]
  /\ fxState' = [grayscale |-> FALSE, invert |-> FALSE]
  /\ sliders' = [brightness |-> <<"1">>, contrast |-> <<"1">>,
                 opacity |-> <<"0", ".", "7">>]

\* enterLandingMode (with stopCamera, resetOverlayTransform, resetFilters)
enterLandingMode ==
  /\ resetFilters
  /\ overlayImage' = Null
  /\ overlayReady' = FALSE
  /\ appState' = [hasImage |-> FALSE, cameraActive |-> FALSE, uiHidden |-> FALSE]
  /\ overlayState' =
       resetOverlayTransform([overlayState EXCEPT !.locked = FALSE],
                             viewportWidth, viewportHeight)

\* window load: enterLandingMode, initControls, startRenderLoop
WindowLoad ==
  /\ UNCHANGED doubleTaps
  /\ ~booted
  /\ booted' = TRUE
  /\ enterLandingMode
  /\ animationFrameId' = startRenderLoop(animationFrameId)
  /\ pendingFrames' = pendingFrames + FramesRequested(animationFrameId)
  /\ lastOp' = "load"
  /\ UNCHANGED <<viewportVars, gestureVars, envVars, canvas>>
  /\ UNCHANGED events

\* changeImageBtn click
ChangeImageClick ==
  /\ UNCHANGED <<pendingFrames, doubleTaps>>
  /\ booted
  /\ UserEvent
  /\ enterLandingMode
  /\ lastOp' = "changeImage"
  /\ UNCHANGED <<booted, viewportVars, animationFrameId, gestureVars, envVars,
                 canvas>>

\* ------------------------------------------------------- image ingestion

\* Image onload handlers that publish their image only when none is
\* published yet.
ExposeFirstOnly(img) ==
  IF overlayReady
  THEN UNCHANGED <<filterVars, imageVars, appState, viewportVars,
                   overlayState, canvas>>
  ELSE /\ resetFilters
       /\ overlayImage' = img
       /\ overlayReady' = TRUE
       /\ appState' = [appState EXCEPT !.hasImage = TRUE]
       /\ viewportWidth' = window.innerWidth
       /\ viewportHeight' = window.innerHeight
       /\ overlayState' =
            resetOverlayTransform(overlayState, window.innerWidth,
                                  window.innerHeight)
       /\ canvas' = drawOverlay(img, TRUE, TRUE)

\* What the image onload handlers do once the final image is ready:
\* publish it, resizeCanvas, resetOverlayTransform, resetFilters,
\* drawOverlay.
Expose(img) ==
  /\ resetFilters
  /\ overlayImage' = img
  /\ overlayReady' = TRUE
  /\ appState' = [appState EXCEPT !.hasImage = TRUE]
  /\ viewportWidth' = window.innerWidth
  /\ viewportHeight' = window.innerHeight
  /\ overlayState' =
       resetOverlayTransform(overlayState, window.innerWidth, window.innerHeight)
  /\ canvas' = drawOverlay(img, TRUE, TRUE)

\* fileInput change: handleImageFile starts the FileReader
FileInputChange(f) ==
  /\ UNCHANGED <<pendingFrames, filterVars, doubleTaps>>
  /\ booted
  /\ UserEvent
  /\ Cardinality(loads) < MaxPending
  /\ [file |-> f, stage |-> "reading"] \notin loads
  /\ loads' = loads \cup {[file |-> f, stage |-> "reading"]}
  /\ lastOp' = "fileChange"
  /\ UNCHANGED <<booted, appState, overlayState, viewportVars, imageVars,
                 animationFrameId, gestureVars, window, now, touches,
                 camRequests, canvas>>

\* reader.onload: img.src = reader.result
ReaderOnload(t) ==
  /\ UNCHANGED <<pendingFrames, filterVars, doubleTaps>>
  /\ t \in loads /\ t.stage = "reading"
  /\ [file |-> t.file, stage |-> "decoding"] \notin loads
  /\ loads' = (loads \ {t}) \cup {[file |-> t.file, stage |-> "decoding"]}
  /\ lastOp' = "readerOnload"
  /\ UNCHANGED <<booted, appState, overlayState, viewportVars, imageVars,
                 animationFrameId, gestureVars, window, now, touches,
                 camRequests, canvas>>
  /\ UNCHANGED events

\* The read or a decode fails: no handler is registered, the selection ends.
LoadError(t) ==
  /\ UNCHANGED <<pendingFrames, filterVars, doubleTaps>>
  /\ t \in loads
  /\ loads' = loads \ {t}
  /\ lastOp' = "loadError"
  /\ UNCHANGED <<booted, appState, overlayState, viewportVars, imageVars,
                 animationFrameId, gestureVars, window, now, touches,
                 camRequests, canvas>>
  /\ UNCHANGED events

\* An img.onload that never waits for the downscaled image.
NeedsWaitNever(finalImg, img) == FALSE

\* img.onload waits for the downscaled image when it is a new, incomplete one.
NeedsWait(finalImg, img) == finalImg # img /\ ~finalImg.complete

\* img.onload
ImgOnload(t, available) ==
  /\ UNCHANGED <<pendingFrames, doubleTaps>>
  /\ t \in loads /\ t.stage = "decoding"
  /\ LET img == DecodedImage(t.file)
         finalImg == IF Largest(img.w, img.h) > maxDim
                     THEN createDownscaledImageIfNeeded(img, available)
                     ELSE img
     IN  IF Largest(img.w, img.h) > maxDim /\ NeedsWait(finalImg, img)
         THEN /\ [file |-> t.file, stage |-> "scaling"] \notin loads
              /\ loads' = (loads \ {t}) \cup {[file |-> t.file, stage |-> "scaling"]}
              /\ lastOp' = "imgOnloadWait"
              /\ UNCHANGED <<appState, overlayState, viewportVars, imageVars,
                             canvas, filterVars>>
         ELSE /\ loads' = loads \ {t}
              /\ lastOp' = "imgOnload"
              /\ Expose(finalImg)
  /\ UNCHANGED <<booted, animationFrameId, gestureVars, window, now, touches,
                 camRequests>>
  /\ UNCHANGED events

\* finalImg.onload of the downscaled image
ScaledOnload(t) ==
  /\ UNCHANGED <<pendingFrames, doubleTaps>>
  /\ t \in loads /\ t.stage = "scaling"
  /\ loads' = loads \ {t}
  /\ Expose([createDownscaledImageIfNeeded(DecodedImage(t.file), FALSE)
               EXCEPT !.complete = TRUE])
  /\ lastOp' = "scaledOnload"
  /\ UNCHANGED <<booted, animationFrameId, gestureVars, window, now, touches,
                 camRequests>>
  /\ UNCHANGED events

\* ----------------------------------------------------------------- camera

\* landingPrimaryBtn click: the file picker, or startCamera up to its await
LandingPrimaryClick ==
  /\ UNCHANGED <<pendingFrames, filterVars, doubleTaps>>
  /\ booted
  /\ UserEvent
  /\ IF appState.hasImage /\ ~appState.cameraActive
     THEN /\ camRequests < MaxCamRequests
          /\ camRequests' = camRequests + 1
     ELSE UNCHANGED camRequests
  /\ lastOp' = "landingPrimary"
  /\ UNCHANGED <<booted, appState, overlayState, viewportVars, imageVars,
                 animationFrameId, gestureVars, window, now, touches, loads,
                 canvas>>

\* startCamera after its awaits: cameraActive, resizeCanvas, enterDrawingMode
CameraStarted ==
  /\ UNCHANGED <<pendingFrames, filterVars, doubleTaps>>
  /\ camRequests > 0
  /\ camRequests' = camRequests - 1
  /\ appState' = [appState EXCEPT !.cameraActive = TRUE]
  /\ viewportWidth' = window.innerWidth
  /\ viewportHeight' = window.innerHeight
  /\ canvas' = Null
  /\ lastOp' = "cameraStarted"
  /\ UNCHANGED <<booted, overlayState, imageVars, animationFrameId,
                 gestureVars, window, now, touches, loads>>
  /\ UNCHANGED events

\* startCamera's catch: getUserMedia or play rejected
CameraFailed ==
  /\ UNCHANGED <<pendingFrames, filterVars, doubleTaps>>
  /\ camRequests > 0
  /\ camRequests' = camRequests - 1
  /\ lastOp' = "cameraFailed"
  /\ UNCHANGED <<booted, appState, overlayState, viewportVars, imageVars,
                 animationFrameId, gestureVars, window, now, touches, loads,
                 canvas>>
  /\ UNCHANGED events

\* --------------------------------------------------------------- controls

\* zoomInBtn click
ZoomInClick ==
  /\ UNCHANGED <<pendingFrames, filterVars, doubleTaps>>
  /\ booted
  /\ UserEvent
  /\ IF ZoomAllowed
     THEN /\ overlayState' =
               [overlayState EXCEPT !.scale = ZoomInScale(overlayState.scale)]
          /\ TransformFits(overlayState')
     ELSE UNCHANGED overlayState
  /\ lastOp' = "zoomIn"
  /\ UNCHANGED <<booted, appState, viewportVars, imageVars, animationFrameId,
                 gestureVars, envVars, canvas>>

\* zoomOutBtn click
ZoomOutClick ==
  /\ UNCHANGED <<pendingFrames, filterVars, doubleTaps>>
  /\ booted
  /\ UserEvent
  /\ IF ZoomAllowed
     THEN /\ overlayState' =
               [overlayState EXCEPT !.scale = ZoomOutScale(overlayState.scale)]
          /\ TransformFits(overlayState')
     ELSE UNCHANGED overlayState
  /\ lastOp' = "zoomOut"
  /\ UNCHANGED <<booted, appState, viewportVars, imageVars, animationFrameId,
                 gestureVars, envVars, canvas>>

\* A lock button that sets the lock instead of flipping it.
toggleLockSet(os) == [os EXCEPT !.locked = TRUE]

\* toggleLock
toggleLock(os) == [os EXCEPT !.locked = ~os.locked]

\* lockBtn click
LockClick ==
  /\ UNCHANGED <<pendingFrames, filterVars, doubleTaps>>
  /\ booted
  /\ UserEvent
  /\ overlayState' = toggleLock(overlayState)
  /\ lastOp' = "lock"
  /\ UNCHANGED <<booted, appState, viewportVars, imageVars, animationFrameId,
                 gestureVars, envVars, canvas>>

\* resetBtn click
ResetClick ==
  /\ UNCHANGED <<pendingFrames, filterVars, doubleTaps>>
  /\ booted
  /\ UserEvent
  /\ overlayState' =
       resetOverlayTransform(overlayState, viewportWidth, viewportHeight)
  /\ lastOp' = "reset"
  /\ UNCHANGED <<booted, appState, viewportVars, imageVars, animationFrameId,
                 gestureVars, envVars, canvas>>

\* brightnessSlider / contrastSlider / opacitySlider input: the user has
\* moved the slider `name` to the value v
SliderInput(name, v) ==
  /\ UNCHANGED doubleTaps
  /\ booted
  /\ UserEvent
  /\ sliders' = [sliders EXCEPT ![name] = v]
  /\ filterState' = [filterState EXCEPT ![name] = parseFloat(v)]
  /\ lastOp' = name
  /\ UNCHANGED <<booted, appState, overlayState, viewportVars, imageVars,
                 animationFrameId, gestureVars, envVars, canvas, fxState,
                 pendingFrames>>

\* setUiHidden
setUiHidden(as, hidden) == [as EXCEPT !.uiHidden = hidden]

\* hideUiBtn click
HideUiClick ==
  /\ UNCHANGED <<pendingFrames, filterVars, doubleTaps>>
  /\ booted
  /\ UserEvent
  /\ appState' = setUiHidden(appState, ~appState.uiHidden)
  /\ lastOp' = "hideUi"
  /\ UNCHANGED <<booted, overlayState, viewportVars, imageVars,
                 animationFrameId, gestureVars, envVars, canvas>>

\* canvas click: the safety net that restores a hidden UI
CanvasClick ==
  /\ UNCHANGED <<pendingFrames, filterVars, doubleTaps>>
  /\ booted
  /\ UserEvent
  /\ appState' = IF appState.uiHidden THEN setUiHidden(appState, FALSE)
                 ELSE appState
  /\ lastOp' = "canvasClick"
  /\ UNCHANGED <<booted, overlayState, viewportVars, imageVars,
                 animationFrameId, gestureVars, envVars, canvas>>

\* A resize listener without the cameraActive early return.
resizeListenerAlways ==
  /\ viewportWidth' = window'.innerWidth
  /\ viewportHeight' = window'.innerHeight
  /\ overlayState' =
       resetOverlayTransform(overlayState, window'.innerWidth,
                             window'.innerHeight)
  /\ canvas' = Null

\* The body of the resize and orientationchange listeners.
resizeListener ==
  IF appState.cameraActive
  THEN /\ viewportWidth' = window'.innerWidth
       /\ viewportHeight' = window'.innerHeight
       /\ overlayState' =
            resetOverlayTransform(overlayState, window'.innerWidth,
                                  window'.innerHeight)
       /\ canvas' = Null
  ELSE UNCHANGED <<viewportVars, overlayState, canvas>>

\* window resize to size w
WindowResize(w) ==
  /\ UNCHANGED <<pendingFrames, filterVars, doubleTaps>>
  /\ booted
  /\ UserEvent
  /\ window' = w
  /\ resizeListener
  /\ lastOp' = "resize"
  /\ UNCHANGED <<booted, appState, imageVars, animationFrameId, gestureVars,
                 now, touches, loads, camRequests>>

\* window orientationchange, the window now being w
OrientationChange(w) ==
  /\ UNCHANGED <<pendingFrames, filterVars, doubleTaps>>
  /\ booted
  /\ UserEvent
  /\ window' = w
  /\ resizeListener
  /\ lastOp' = "orientationchange"
  /\ UNCHANGED <<booted, appState, imageVars, animationFrameId, gestureVars,
                 now, touches, loads, camRequests>>

\* --------------------------------------------------------- touch gestures

HiddenUiIgnored == FALSE

\* handleTouchStart: a touch on a hidden UI only restores the UI.
HiddenUiConsumes == appState.uiHidden

\* A double tap that leaves the time of the tap as the last-tap time.
TapTimeKept(t) == t

\* The last-tap time a double tap leaves: lastTapTime = 0
TapTimeAfterDoubleTap(t) == 0

\* handleTouchStart takes its double-tap branch on e.touches = ts
DoubleTapDetected(ts) ==
  /\ overlayReady /\ ~HiddenUiConsumes /\ Len(ts) = 1
  /\ LET dx == ts[1][1] - lastTapX
         dy == ts[1][2] - lastTapY
     IN  IsDoubleTap(now - lastTapTime, dx * dx + dy * dy)

\* handleTouchStart with e.touches = ts
handleTouchStart(ts) ==
  IF ~overlayReady
  THEN UNCHANGED <<appState, overlayState, gestureVars>>
  ELSE IF HiddenUiConsumes
  THEN /\ appState' = setUiHidden(appState, FALSE)
       /\ UNCHANGED <<overlayState, gestureVars>>
  ELSE IF Len(ts) = 1
  THEN LET x == ts[1][1]
           y == ts[1][2]
           dt == now - lastTapTime
           dx == x - lastTapX
           dy == y - lastTapY
           dist2 == dx * dx + dy * dy
           doubleTap == IsDoubleTap(dt, dist2)
           os == IF doubleTap
                 THEN resetOverlayTransform(overlayState, viewportWidth,
                                            viewportHeight)
                 ELSE overlayState
       IN  /\ overlayState' = os
           /\ IF doubleTap
              THEN /\ lastTapTime' = TapTimeAfterDoubleTap(now)
                   /\ UNCHANGED <<lastTapX, lastTapY>>
              ELSE lastTapTime' = now /\ lastTapX' = x /\ lastTapY' = y
           /\ IF overlayState.locked
              THEN UNCHANGED panVars
              ELSE /\ panStartX' = x
                   /\ panStartY' = y
                   /\ overlayStartX' = os.x
                   /\ overlayStartY' = os.y
           /\ UNCHANGED <<appState, pinchVars>>
  ELSE IF Len(ts) = 2 /\ ~overlayState.locked
  THEN /\ pinchStartDistance' = FingerDistance(ts[1], ts[2])
       /\ pinchStartScale' = overlayState.scale
       /\ pinchStartCenterX' = Rat(ts[1][1] + ts[2][1], 2)
       /\ pinchStartCenterY' = Rat(ts[1][2] + ts[2][2], 2)
       /\ overlayStartXForPinch' = overlayState.x
       /\ overlayStartYForPinch' = overlayState.y
       /\ UNCHANGED <<appState, overlayState, tapVars, panVars>>
  ELSE UNCHANGED <<appState, overlayState, gestureVars>>

\* touchstart: fingers land, the ones already down stay where they are
TouchStart(ts) ==
  /\ UNCHANGED <<pendingFrames, filterVars>>
  /\ booted
  /\ UserEvent
  /\ Len(ts) > Len(touches)
  /\ SubSeq(ts, 1, Len(touches)) = touches
  /\ touches' = ts
  /\ handleTouchStart(ts)
  /\ doubleTaps' = doubleTaps + (IF DoubleTapDetected(ts) THEN 1 ELSE 0)
  /\ lastOp' = "touchstart"
  /\ UNCHANGED <<booted, viewportVars, imageVars, animationFrameId, window,
                 now, loads, camRequests, canvas>>

\* handleTouchMove with e.touches = ts
handleTouchMove(ts) ==
  IF ~overlayReady \/ overlayState.locked
  THEN UNCHANGED overlayState
  ELSE IF Len(ts) = 1
  THEN overlayState' = PanTransform(overlayState, ts[1])
  ELSE IF Len(ts) = 2
  THEN overlayState' = PinchTransform(overlayState, ts[1], ts[2])
  ELSE UNCHANGED overlayState

\* touchmove: the fingers that are down move
TouchMove(ts) ==
  /\ UNCHANGED <<pendingFrames, filterVars, doubleTaps>>
  /\ booted
  /\ UserEvent
  /\ Len(ts) = Len(touches)
  /\ touches' = ts
  /\ handleTouchMove(ts)
  /\ TransformFits(overlayState')
  /\ lastOp' = "touchmove"
  /\ UNCHANGED <<booted, appState, viewportVars, imageVars, animationFrameId,
                 gestureVars, window, now, loads, camRequests, canvas>>

\* The touch points left when the fingers at the indices in `gone` lift.
RECURSIVE Remaining(_, _, _)
Remaining(ts, gone, i) ==
  IF i > Len(ts) THEN <<>>
  ELSE (IF i \in gone THEN <<>> ELSE <<ts[i]>>) \o Remaining(ts, gone, i + 1)

\* handleTouchEnd (touchend and touchcancel) with e.touches = ts
handleTouchEnd(ts) ==
  IF Len(ts) = 0
  THEN pinchStartDistance' = 0
  ELSE UNCHANGED pinchStartDistance

\* touchend / touchcancel: the fingers at the indices in `gone` lift
TouchEnd(gone) ==
  /\ UNCHANGED <<pendingFrames, filterVars, doubleTaps>>
  /\ booted
  /\ UserEvent
  /\ gone # {}
  /\ touches' = Remaining(touches, gone, 1)
  /\ handleTouchEnd(touches')
  /\ lastOp' = "touchend"
  /\ UNCHANGED <<booted, appState, overlayState, viewportVars, imageVars,
                 animationFrameId, tapVars, panVars, pinchOriginVars, window,
                 now, loads, camRequests, canvas>>

\* ------------------------------------------------------ clock, render loop

\* Time passes.
Tick(d) ==
  /\ UNCHANGED <<pendingFrames, filterVars, doubleTaps>>
  /\ now + d <= StartTime + MaxElapsed
  /\ now' = now + d
  /\ UNCHANGED <<booted, appState, overlayState, viewportVars, imageVars,
                 animationFrameId, gestureVars, window, touches, loads,
                 camRequests, canvas, lastOp>>
  /\ UNCHANGED events

\* renderLoop: a frame callback runs drawOverlay and requests the next frame
RenderFrame ==
  /\ UNCHANGED <<filterVars, doubleTaps>>
  /\ pendingFrames > 0
  /\ canvas' = drawOverlay(overlayImage, overlayReady, appState.hasImage)
  /\ animationFrameId' = requestAnimationFrame(animationFrameId)
  /\ pendingFrames' = (pendingFrames - 1) + 1
  /\ lastOp' = "frame"
  /\ UNCHANGED <<booted, appState, overlayState, viewportVars, imageVars,
                 gestureVars, envVars>>
  /\ UNCHANGED events

\* ------------------------------------------------------------------ Next

\* Every event the page can receive.
Next ==
  \/ WindowLoad
  \/ ChangeImageClick
  \/ \E f \in Files : FileInputChange(f)
  \/ \E t \in loads : ReaderOnload(t)
  \/ \E t \in loads : LoadError(t)
  \/ \E t \in loads : \E available \in BOOLEAN : ImgOnload(t, available)
  \/ \E t \in loads : ScaledOnload(t)
  \/ LandingPrimaryClick
  \/ CameraStarted
  \/ CameraFailed
  \/ ZoomInClick
  \/ ZoomOutClick
  \/ LockClick
  \/ ResetClick
  \/ HideUiClick
  \/ CanvasClick
  \/ \E name \in SliderNames : \E v \in SliderValues : SliderInput(name, v)
  \/ \E w \in WindowSizes : WindowResize(w)
  \/ \E w \in WindowSizes : OrientationChange(w)
  \/ \E ts \in TouchConfigs : TouchStart(ts)
  \/ \E ts \in TouchConfigs : TouchMove(ts)
  \/ \E gone \in SUBSET (1 .. Len(touches)) : TouchEnd(gone)
  \/ \E d \in TickSteps : Tick(d)
  \/ RenderFrame

Spec == Init /\ [][Next]_vars

(***************************************************************************)
(* The state space of Spec is too large to enumerate, so the properties    *)
(* are checked under four specifications that share Init and the actions   *)
(* above and differ in the events the environment sends.                   *)
(***************************************************************************)

SmallFile == CHOOSE f \in Files : f.name = "small"

\* One image is picked on the landing screen and loaded.
LoadOneImage ==
  \/ WindowLoad
  \/ (loads = {} /\ ~overlayReady /\ FileInputChange(SmallFile))
  \/ \E t \in loads : ReaderOnload(t)
  \/ \E t \in loads : \E available \in BOOLEAN : ImgOnload(t, available)

\* The camera is started and the window is resized.
CameraAndResize ==
  \/ LandingPrimaryClick
  \/ CameraStarted
  \/ \E w \in WindowSizes : WindowResize(w)

SingleFinger == {ts \in TouchConfigs : Len(ts) = 1}
MultiFinger == TouchConfigs \ {<<PB>>, <<PC>>}

\* Single-finger gestures against the clock: taps, double taps, pans.
NextTap ==
  \/ LoadOneImage
  \/ CameraAndResize
  \/ LockClick
  \/ ResetClick
  \/ HideUiClick
  \/ CanvasClick
  \/ \E ts \in SingleFinger : TouchStart(ts)
  \/ \E ts \in SingleFinger : TouchMove(ts)
  \/ \E gone \in SUBSET (1 .. Len(touches)) : TouchEnd(gone)
  \/ \E d \in TickSteps : Tick(d)

SpecTap == Init /\ [][NextTap]_vars

\* One, two and three finger gestures and the zoom buttons.
NextPinch ==
  \/ LoadOneImage
  \/ CameraAndResize
  \/ ZoomInClick
  \/ ZoomOutClick
  \/ LockClick
  \/ ResetClick
  \/ HideUiClick
  \/ \E ts \in MultiFinger : TouchStart(ts)
  \/ \E ts \in MultiFinger : TouchMove(ts)
  \/ \E gone \in SUBSET (1 .. Len(touches)) : TouchEnd(gone)

SpecPinch == Init /\ [][NextPinch]_vars

\* One pinch session after another on a loaded image: two-finger touches,
\* the lock button, fingers lifting.
TwoFinger == {ts \in TouchConfigs : Len(ts) = 2}
NextSession ==
  \/ LoadOneImage
  \/ LockClick
  \/ \E ts \in TwoFinger : TouchStart(ts)
  \/ \E ts \in TwoFinger : TouchMove(ts)
  \/ \E gone \in SUBSET (1 .. Len(touches)) : TouchEnd(gone)

SpecSession == Init /\ [][NextSession]_vars

\* Image selection, decoding and downscaling, change-image and the render
\* loop.
NextIngest ==
  \/ WindowLoad
  \/ ChangeImageClick
  \/ \E f \in Files : FileInputChange(f)
  \/ \E t \in loads : ReaderOnload(t)
  \/ \E t \in loads : LoadError(t)
  \/ \E t \in loads : \E available \in BOOLEAN : ImgOnload(t, available)
  \/ \E t \in loads : ScaledOnload(t)
  \/ RenderFrame

SpecIngest == Init /\ [][NextIngest]_vars

\* Window resizes and orientation changes on the landing screen, with an
\* image loaded, and with the camera started or failing to start.
NextResize ==
  \/ LoadOneImage
  \/ ChangeImageClick
  \/ LandingPrimaryClick
  \/ CameraStarted
  \/ CameraFailed
  \/ LockClick
  \/ \E w \in WindowSizes : WindowResize(w)
  \/ \E w \in WindowSizes : OrientationChange(w)
  \/ \E ts \in {<<PA>>} : TouchStart(ts)
  \/ \E ts \in {<<PD>>} : TouchMove(ts)
  \/ RenderFrame

SpecResize == Init /\ [][NextResize]_vars

\* The render loop beside image loads, change-image and the buttons that
\* leave the drawing unchanged.  The browser runs a queued frame callback at
\* its next repaint, hence the weak fairness of RenderFrame.
NextRender ==
  \/ LoadOneImage
  \/ ChangeImageClick
  \/ LockClick
  \/ HideUiClick
  \/ \E w \in WindowSizes : WindowResize(w)
  \/ RenderFrame

SpecRender == Init /\ [][NextRender]_vars /\ WF_vars(RenderFrame)

\* Two overlapping selections: the small image A is picked first, and
\* another image B is picked while A is still being read or decoded; every
\* read and decode succeeds.
NextRace ==
  \/ WindowLoad
  \/ (loads = {} /\ ~overlayReady /\ FileInputChange(SmallFile))
  \/ \E f \in Files \ {SmallFile} :
        (\E t \in loads : t.file = SmallFile) /\ FileInputChange(f)
  \/ \E t \in loads : ReaderOnload(t)
  \/ \E t \in loads : \E available \in BOOLEAN : ImgOnload(t, available)
  \/ \E t \in loads : ScaledOnload(t)
  \/ RenderFrame

SpecRace == Init /\ [][NextRace]_vars

\* The buttons and sliders of the drawing screen, with a one-finger pan and
\* a pinch to the largest scale.
NextControls ==
  \/ LoadOneImage
  \/ ZoomInClick
  \/ ZoomOutClick
  \/ LockClick
  \/ ResetClick
  \/ \E name \in SliderNames : \E v \in SliderValues : SliderInput(name, v)
  \/ \E ts \in {<<PD>>, <<PA, PA>>} : TouchStart(ts)
  \/ \E ts \in {<<PA>>, <<PD, <<270, 560>>>>} : TouchMove(ts)

SpecControls == Init /\ [][NextControls]_vars


\* ----------------------------------------------------------------- claims

Tenth == Rat(1, 10)
Eight == R(8)

\* C1 (scale clamping): after every operation - zoom buttons, touch events
\* (also a two-finger move with no recorded pinch start), resets, resizes,
\* image loads - 0.1 <= overlayState.scale <= 8.
C1_ScaleClamped ==
  /\ RLe(Tenth, overlayState.scale)
  /\ RLe(overlayState.scale, Eight)

\* C1 witness: a two-finger move with no recorded pinch start (the divisor
\* pinchStartDistance is 0) has run on a ready, unlocked overlay and left the
\* scale at the upper clamp.
C1_Witness ==
  /\ lastOp = "touchmove"
  /\ Len(touches) = 2
  /\ overlayReady /\ ~overlayState.locked
  /\ pinchStartDistance = 0
  /\ overlayState.scale = Eight

\* C1 witness of the lower clamp, reached by a pinch and kept by zoom-out.
C1_WitnessLow ==
  /\ lastOp = "zoomOut"
  /\ overlayReady /\ ~overlayState.locked
  /\ overlayState.scale = Tenth


\* The step runs the handler named op (a clock tick keeps lastOp).
Ran(op) ==
  /\ lastOp' = op
  /\ now' = now
  /\ (events' # events \/ loads' # loads \/ camRequests' # camRequests)

Transform(os) == <<os.scale, os.x, os.y>>
ResetTransform(vw, vh) == <<R(1), Rat(vw, 2), Rat(vh, 2)>>

\* C2 (lock invariant): a touch-start, touch-move or touch-end received
\* while the overlay is locked leaves (scale, x, y) as they were.
C2_LockInvariant ==
  [][((Ran("touchstart") \/ Ran("touchmove") \/ Ran("touchend"))
        /\ overlayState.locked /\ overlayState'.locked)
      => Transform(overlayState') = Transform(overlayState)]_vars

\* The single-finger touch-start of this step is a double tap: less than
\* 300 ms after the recorded last tap and less than 30 px from it.
TapIsDouble ==
  LET dx == touches'[1][1] - lastTapX
      dy == touches'[1][2] - lastTapY
  IN  now - lastTapTime < 300 /\ dx * dx + dy * dy < 900

\* C3 (double-tap reset): with an image ready and the UI visible, a
\* single-finger touch-start resets the transform to (1, viewportWidth/2,
\* viewportHeight/2) when it is a double tap, and leaves the transform alone
\* when it comes 300 ms or more after the last tap or 30 px or more away.
C3_DoubleTapReset ==
  [][(Ran("touchstart") /\ Len(touches') = 1
        /\ overlayReady /\ ~appState.uiHidden)
      => IF TapIsDouble
         THEN Transform(overlayState')
                = ResetTransform(viewportWidth, viewportHeight)
         ELSE Transform(overlayState') = Transform(overlayState)]_vars

\* C3 witness: a touch-start 150 ms after and 20 px from the last tap has
\* been taken as a double tap (the tap time is cleared, the tap position is
\* still the first tap's) and the transform is the reset one.
C3_Witness ==
  /\ lastOp = "touchstart"
  /\ overlayReady /\ ~appState.uiHidden
  /\ touches = <<PB>>
  /\ lastTapTime = 0 /\ lastTapX = PA[1] /\ lastTapY = PA[2]
  /\ now > StartTime
  /\ Transform(overlayState) = ResetTransform(viewportWidth, viewportHeight)

\* What a touch-start on a hidden UI must leave alone.
TouchFrame == <<overlayState, tapVars, panVars, pinchVars>>

ResetInvoked ==
  \/ Ran("reset")
  \/ (Ran("resize") /\ appState.cameraActive)
  \/ Ran("imgOnload")
  \/ Ran("scaledOnload")
  \/ (Ran("touchstart") /\ Len(touches') = 1 /\ overlayReady
        /\ ~appState.uiHidden /\ TapIsDouble)

\* C10 (reset): every call of resetOverlayTransform - double tap, reset
\* button, resize, image load - sets scale = 1, x = viewportWidth/2,
\* y = viewportHeight/2 and keeps rotation and locked, locked or not.
C10_ResetFrame ==
  [][ResetInvoked
      => /\ Transform(overlayState')
              = ResetTransform(viewportWidth', viewportHeight')
         /\ overlayState'.rotation = overlayState.rotation
         /\ overlayState'.locked = overlayState.locked]_vars

\* C10 witness: the reset button was pressed on a locked overlay after a
\* window resize, and the transform is the reset one for the new viewport.
C10_Witness ==
  /\ lastOp = "reset"
  /\ overlayState.locked
  /\ overlayReady
  /\ viewportWidth = 800
  /\ Transform(overlayState) = ResetTransform(viewportWidth, viewportHeight)


\* C4 (pinch anchor stability): for a pinch recorded at scale s0, midpoint
\* (mx, my) and transform (x0, y0), a two-finger touch-move whose midpoint is
\* still (mx, my) keeps the world point under the midpoint where it was:
\* (mx - x') / newScale = (mx - x0) / s0, and likewise for y, whether the
\* new scale was clamped or not.
C4_PinchAnchor ==
  [][(Ran("touchmove") /\ Len(touches') = 2
        /\ overlayReady /\ ~overlayState.locked
        /\ Rat(touches'[1][1] + touches'[2][1], 2) = pinchStartCenterX
        /\ Rat(touches'[1][2] + touches'[2][2], 2) = pinchStartCenterY)
      => /\ RDiv(RSub(pinchStartCenterX, overlayState'.x), overlayState'.scale)
              = RDiv(RSub(pinchStartCenterX, overlayStartXForPinch),
                     pinchStartScale)
         /\ RDiv(RSub(pinchStartCenterY, overlayState'.y), overlayState'.scale)
              = RDiv(RSub(pinchStartCenterY, overlayStartYForPinch),
                     pinchStartScale)]_vars

\* C4 witness: a pinch recorded away from the overlay's position has been
\* followed by a two-finger move about the same midpoint that changed the
\* scale and, to keep the anchor, the translation.
C4_Witness ==
  /\ lastOp = "touchmove"
  /\ Len(touches) = 2
  /\ overlayReady /\ ~overlayState.locked
  /\ pinchStartDistance > 1
  /\ Rat(touches[1][1] + touches[2][1], 2) = pinchStartCenterX
  /\ Rat(touches[1][2] + touches[2][2], 2) = pinchStartCenterY
  /\ overlayStartXForPinch # pinchStartCenterX
  /\ overlayState.scale # pinchStartScale
  /\ overlayState.x # overlayStartXForPinch

\* C4 witness of the clamped case: the same, with the new scale cut to 8.
C4_WitnessClamped ==
  /\ C4_Witness
  /\ overlayState.scale = Eight
  /\ RLt(Eight, RMul(RDiv(R(FingerDistance(touches[1], touches[2])),
                          R(pinchStartDistance)), pinchStartScale))

\* C6 (zoom buttons gated by the lock): a zoom-in or zoom-out click on a
\* locked overlay leaves scale, x and y unchanged.
C6_ZoomGatedByLock ==
  [][((Ran("zoomIn") \/ Ran("zoomOut")) /\ overlayState.locked)
      => Transform(overlayState') = Transform(overlayState)]_vars

\* C6 witness: after a pinch to scale 2 and a lock toggle, a zoom button was
\* pressed and the scale is still 2.
C6_Witness ==
  /\ lastOp \in {"zoomIn", "zoomOut"}
  /\ overlayReady
  /\ overlayState.locked
  /\ overlayState.scale = R(2)


\* The step handles a window resize or orientation change.
Resized == Ran("resize") \/ Ran("orientationchange")

\* The centre of the window.
WindowCentre(w) == <<Rat(w.innerWidth, 2), Rat(w.innerHeight, 2)>>

C5_WitnessInactive ==
  /\ lastOp \in {"resize", "orientationchange"}
  /\ overlayReady /\ ~appState.cameraActive
  /\ viewportWidth # window.innerWidth
  /\ <<overlayState.x, overlayState.y>> # WindowCentre(window)

\* C7 (image-handle readiness): whenever drawOverlay passes its guard the
\* overlay image is fully loaded, and so is whatever the canvas shows; the
\* three flags overlayReady, overlayImage and hasImage are set together and
\* cleared together.
C7_HandleReady ==
  /\ DrawGuard(overlayImage, overlayReady, appState.hasImage)
       => overlayImage.complete
  /\ canvas # Null => canvas.complete
  /\ overlayReady = appState.hasImage
  /\ overlayReady = (overlayImage # Null)

\* C7 witness: a render frame has painted a downscaled image while the
\* decode of another selection is still pending.
C7_Witness ==
  /\ lastOp = "frame"
  /\ DrawGuard(overlayImage, overlayReady, appState.hasImage)
  /\ overlayImage.scaled /\ overlayImage.complete
  /\ canvas = overlayImage
  /\ loads # {}

\* The file an image handle was made from.
FileOf(img) == CHOOSE f \in Files : f.name = img.file

\* r is q = num / den rounded to a nearest integer.
IsRounded(r, num, den) == 2 * Abs(r * den - num) <= den

\* C8 (downscale bound): the exposed handle of an image of natural size
\* (w, h) is the decoded image itself when max(w, h) <= 4096; otherwise it
\* is a raster of size (round(w * 4096 / max), round(h * 4096 / max)), whose
\* longest edge is exactly 4096.
C8_DownscaleBound ==
  overlayImage # Null
    => LET f == FileOf(overlayImage)
           largest == IF f.w > f.h THEN f.w ELSE f.h
       IN  IF largest <= 4096
           THEN /\ overlayImage.w = f.w /\ overlayImage.h = f.h
                /\ ~overlayImage.scaled
           ELSE /\ IsRounded(overlayImage.w, f.w * 4096, largest)
                /\ IsRounded(overlayImage.h, f.h * 4096, largest)
                /\ (IF overlayImage.w > overlayImage.h
                     THEN overlayImage.w ELSE overlayImage.h) = 4096
                /\ overlayImage.scaled

\* C8 witness: the 3333 x 5000 image is exposed as a 2730 x 4096 raster.
C8_Witness ==
  /\ lastOp \in {"imgOnload", "scaledOnload"}
  /\ overlayReady
  /\ overlayImage.file = "tall"
  /\ overlayImage.w = 2730 /\ overlayImage.h = 4096

\* C8 witness of the unchanged case: the 4096 x 3000 image is exposed as
\* decoded.
C8_WitnessUnchanged ==
  /\ lastOp = "imgOnload"
  /\ overlayReady
  /\ overlayImage = DecodedImage(FileOf(overlayImage))
  /\ overlayImage.w = 4096 /\ overlayImage.h = 3000

\* C8 witness of the half-integer case: the 8192 x 4097 image is exposed as
\* a 4096 x 2049 raster.
C8_WitnessHalf ==
  /\ overlayReady
  /\ overlayImage.file = "half"
  /\ overlayImage.w = 4096 /\ overlayImage.h = 2049


\* C11 (render loop): once the load handler has called startRenderLoop, a
\* further startRenderLoop call would queue nothing and keep the handle, at
\* most one frame callback is pending at any time and exactly one from then
\* on (animationFrameId is never null again), and with frame callbacks
\* scheduled fairly renderLoop runs infinitely often.
C11_RenderLoop ==
  /\ [](pendingFrames <= 1)
  /\ [](booted => /\ animationFrameId # 0
                  /\ pendingFrames = 1
                  /\ FramesRequested(animationFrameId) = 0
                  /\ startRenderLoop(animationFrameId) = animationFrameId)
  /\ ((<>booted) => []<><<RenderFrame>>_vars)

\* C11 witness: the loop has run at least two frames (the handle is the one
\* requested by a frame callback) and has painted a loaded image.
C11_Witness ==
  /\ booted
  /\ lastOp = "frame"
  /\ animationFrameId = 2
  /\ pendingFrames = 1
  /\ canvas # Null


\* The controls of the drawing screen, by the name their handler leaves in
\* lastOp.
ControlOps == {"zoomIn", "zoomOut", "lock", "reset"} \cup SliderNames

\* The step applies the control op right after op was applied (a slider:
\* set to the value it was just set to).
Repeated(op) ==
  /\ lastOp = op
  /\ Ran(op)
  /\ op \in SliderNames => sliders'[op] = sliders[op]

\* C12 as claimed (idempotent controls): applying a zoom button, the lock
\* button, the reset button or a slider value twice in a row leaves the
\* transform and filter state as applying it once did.
C12_ControlsIdempotent ==
  [][\A op \in ControlOps :
       Repeated(op) => UNCHANGED <<overlayState, filterVars>>]_vars

\* C12 as amended: the reset button and a slider set to a given value are
\* idempotent; a second lock click flips locked back and changes nothing
\* else; a second zoom click on a ready, unlocked overlay multiplies the
\* scale by 1.1 (or 1 / 1.1) again, clamped to [0.1, 8], so it changes the
\* scale unless the scale is at that clamp, and changes nothing on a locked
\* or not ready overlay.
C12_ControlsRepeated ==
  [][\A op \in ControlOps :
       Repeated(op) =>
         /\ UNCHANGED filterVars
         /\ op \in SliderNames \cup {"reset"} => UNCHANGED overlayState
         /\ op = "lock" =>
              overlayState' =
                [overlayState EXCEPT !.locked = ~overlayState.locked]
         /\ op \in {"zoomIn", "zoomOut"} =>
              IF overlayReady /\ ~overlayState.locked
              THEN /\ overlayState' =
                        [overlayState EXCEPT !.scale =
                           IF op = "zoomIn"
                           THEN MathMin(Eight,
                                        RMul(overlayState.scale, Rat(11, 10)))
                           ELSE MathMax(Tenth,
                                        RMul(overlayState.scale, Rat(10, 11)))]
                   /\ (overlayState'.scale = overlayState.scale)
                        = (overlayState.scale
                             = (IF op = "zoomIn" THEN Eight ELSE Tenth))
              ELSE UNCHANGED overlayState]_vars

\* C12 witness: two zoom-in clicks in a row on a ready, unlocked overlay at
\* scale 1 have left the scale at 1.21, after a slider was moved.
C12_Witness ==
  /\ lastOp = "zoomIn"
  /\ overlayReady /\ ~overlayState.locked
  /\ overlayState.scale = Rat(121, 100)
  /\ filterState.opacity = Rat(7, 20)

\* C12 witness of the idempotent cases: a slider has been set to 0.35 and
\* the reset button pressed on a panned overlay.
C12_WitnessReset ==
  /\ lastOp = "reset"
  /\ overlayReady
  /\ sliders.brightness = <<"0", ".", "3", "5">>
  /\ filterState.brightness = Rat(7, 20)
  /\ overlayStartX # R(0)


\* C13 (image-selection race): a new selection leaves every pending
\* selection pending, and each decode that completes publishes its own
\* image over whatever was published before, so the overlay image is always
\* that of the decode that completed last.
C13_LastWriterWins ==
  [][/\ Ran("fileChange") => loads \subseteq loads'
     /\ (Ran("imgOnload") \/ Ran("scaledOnload"))
          => \E t \in loads :
               /\ loads' = loads \ {t}
               /\ overlayReady'
               /\ overlayImage'.file = t.file.name]_vars

\* C13 witness: image B was selected while the first selection A (the small
\* image) was pending, B's decode completed first and was painted, and A's
\* decode completed last: the overlay image is the stale selection A.
C13_Witness ==
  /\ lastOp = "imgOnload"
  /\ events >= 2
  /\ loads = {}
  /\ overlayReady
  /\ overlayImage.file = "small"
  /\ animationFrameId = 2


\* The step is a two-finger touch-move that handleTouchMove processes.
PinchMove ==
  /\ Ran("touchmove")
  /\ Len(touches') = 2
  /\ overlayReady /\ ~overlayState.locked

\* The midpoint of two touch points.
Midpoint(ts) == <<Rat(ts[1][1] + ts[2][1], 2), Rat(ts[1][2] + ts[2][2], 2)>>

\* C14 (world anchor from the original midpoint): a two-finger touch-move
\* computes the world anchor from the midpoint recorded at pinch start,
\* world = (pinchStartCenter - pinch-start position) / s0, and sets the new
\* position to currentMidpoint - world * newScale, also when the current
\* midpoint differs from the recorded one.
C14_AnchorFromStartMidpoint ==
  [][PinchMove =>
       LET c == Midpoint(touches')
           worldX == RDiv(RSub(pinchStartCenterX, overlayStartXForPinch),
                          pinchStartScale)
           worldY == RDiv(RSub(pinchStartCenterY, overlayStartYForPinch),
                          pinchStartScale)
       IN  /\ overlayState'.x = RSub(c[1], RMul(worldX, overlayState'.scale))
           /\ overlayState'.y = RSub(c[2], RMul(worldY, overlayState'.scale))
    ]_vars

\* The transform that the pinch-start snapshot and the finger positions ts
\* determine.
SnapshotTransform(ts) ==
  LET c == Midpoint(ts)
      dx == ts[2][1] - ts[1][1]
      dy == ts[2][2] - ts[1][2]
      d == IF dx * dx + dy * dy = 0 THEN 1 ELSE MathHypot(dx, dy)
      raw == RMul(Rat(d, pinchStartDistance), pinchStartScale)
      newScale == IF RLt(raw, Tenth) THEN Tenth
                  ELSE IF RLt(Eight, raw) THEN Eight ELSE raw
  IN  << newScale,
         RSub(c[1], RMul(RDiv(RSub(c[1], overlayStartXForPinch),
                              pinchStartScale), newScale)),
         RSub(c[2], RMul(RDiv(RSub(c[2], overlayStartYForPinch),
                              pinchStartScale), newScale)) >>

\* C15 (pinch updates are not incremental): in a pinch session, the
\* transform a two-finger touch-move produces is determined by the
\* pinch-start snapshot and the current finger positions alone, whatever
\* moves came before; the move leaves the snapshot alone, and repeating the
\* same move leaves the transform unchanged.
C15_PinchFromSnapshot ==
  [][(PinchMove /\ pinchStartDistance > 0)
      => /\ Transform(overlayState') = SnapshotTransform(touches')
         /\ UNCHANGED pinchVars
         /\ (lastOp = "touchmove" /\ touches' = touches)
              => UNCHANGED overlayState]_vars

\* C15 witness: in a pinch recorded with the fingers 100 apart at scale 1,
\* a two-finger move has put the fingers 200 apart about another midpoint,
\* and the scale is 2.
C15_Witness ==
  /\ lastOp = "touchmove"
  /\ touches = <<PD, <<270, 560>>>>
  /\ overlayReady /\ ~overlayState.locked
  /\ pinchStartDistance = 100
  /\ pinchStartScale = R(1)
  /\ overlayState.scale = R(2)

\* C16 (touch-end clears the gesture session): a touch-end or touch-cancel
\* that leaves no touch clears the pinch origin (start distance, start
\* scale, start midpoint, position snapshot) and the pan origin (pointer
\* start position, position snapshot).
C16_TouchEndClearsSession ==
  [][(Ran("touchend") /\ Len(touches') = 0)
      => /\ pinchStartDistance' = 0
         /\ pinchStartScale' = R(1)
         /\ pinchStartCenterX' = R(0) /\ pinchStartCenterY' = R(0)
         /\ overlayStartXForPinch' = R(0) /\ overlayStartYForPinch' = R(0)
         /\ panStartX' = 0 /\ panStartY' = 0
         /\ overlayStartX' = R(0) /\ overlayStartY' = R(0)]_vars


\* The step is a single-finger touch-start on a ready overlay with the UI
\* visible.
Tap ==
  /\ Ran("touchstart")
  /\ Len(touches') = 1
  /\ overlayReady /\ ~appState.uiHidden

\* C17 (no re-trigger on a triple tap): a double tap clears the last-tap
\* time and keeps the last-tap position; any other tap is recorded, time
\* and position, and resets nothing; a tap that finds the last-tap time
\* cleared is never a double tap, so of three quick taps only the second
\* resets.
C17_TripleTap ==
  [][Tap =>
       /\ IF TapIsDouble
          THEN /\ doubleTaps' = doubleTaps + 1
               /\ lastTapTime' = 0
               /\ UNCHANGED <<lastTapX, lastTapY>>
          ELSE /\ doubleTaps' = doubleTaps
               /\ lastTapTime' = now
               /\ lastTapX' = touches'[1][1]
               /\ lastTapY' = touches'[1][2]
               /\ Transform(overlayState') = Transform(overlayState)
       /\ lastTapTime = 0 => ~TapIsDouble]_vars

\* C17 witness: three taps on a ready overlay less than 300 ms apart: the
\* second was the one double tap, and the third, at (200, 400), is recorded
\* as the new last tap.
C17_Witness ==
  /\ lastOp = "touchstart"
  /\ overlayReady /\ ~appState.uiHidden
  /\ events = 6
  /\ doubleTaps = 1
  /\ now < StartTime + 300
  /\ touches = <<PA>>
  /\ lastTapTime = now /\ lastTapX = PA[1] /\ lastTapY = PA[2]

\* C18 (division-by-zero guard): whenever handleTouchMove processes two
\* touches, the divisor pinchStartDistance is at least 1.
C18_DivisorNonZero ==
  [][PinchMove => pinchStartDistance >= 1]_vars

\* C19 (reset follows resize): right after every handler that calls
\* resizeCanvas - image load, camera start, window resize or orientation
\* change with the camera active - scale is 1 and (x, y) is the centre of
\* the viewport just measured.
C19_ResetFollowsResize ==
  [][(\/ Ran("imgOnload") \/ Ran("scaledOnload")
      \/ Ran("cameraStarted")
      \/ (Resized /\ appState.cameraActive))
      => /\ viewportWidth' = window'.innerWidth
         /\ viewportHeight' = window'.innerHeight
         /\ Transform(overlayState')
              = ResetTransform(viewportWidth', viewportHeight')]_vars

\* C20 (single-finger pan): a single-finger touch-start on an unlocked,
\* ready, UI-visible overlay records the pointer and the transform left by
\* that event (after its double-tap reset, if any) as the pan origin; a
\* single-finger touch-move on a ready overlay keeps the origin and the
\* scale and puts (x, y) at origin + (pointer - pointer at touch-start),
\* and changes nothing when the overlay is locked.
C20_PanFromOrigin ==
  [][/\ (Tap /\ ~overlayState.locked)
          => /\ panStartX' = touches'[1][1]
             /\ panStartY' = touches'[1][2]
             /\ overlayStartX' = overlayState'.x
             /\ overlayStartY' = overlayState'.y
     /\ (Ran("touchmove") /\ Len(touches') = 1 /\ overlayReady)
          => /\ UNCHANGED panVars
             /\ IF overlayState.locked
                THEN UNCHANGED overlayState
                ELSE overlayState' =
                       [overlayState EXCEPT
                          !.x = RAdd(overlayStartX,
                                     R(touches'[1][1] - panStartX)),
                          !.y = RAdd(overlayStartY,
                                     R(touches'[1][2] - panStartY))]]_vars

\* C20 witness: a pan that started at (150, 400) with the overlay at
\* (200, 400) has the pointer at (200, 430) and the overlay at (250, 430).
C20_Witness ==
  /\ lastOp = "touchmove"
  /\ overlayReady /\ ~overlayState.locked
  /\ touches = <<PC>>
  /\ panStartX = PD[1] /\ panStartY = PD[2]
  /\ overlayStartX = R(200) /\ overlayStartY = R(400)
  /\ overlayState.x = R(250) /\ overlayState.y = R(430)

\* C20 witness with a double tap: the touch-start that began the pan was a
\* double tap on a panned overlay, and the pan went on from the reset
\* position.
C20_WitnessAfterDoubleTap ==
  /\ lastOp = "touchmove"
  /\ overlayReady /\ ~overlayState.locked
  /\ doubleTaps = 1 /\ lastTapTime = 0
  /\ events = 6
  /\ touches = <<PA>>
  /\ panStartX = PD[1]
  /\ overlayStartX = R(200)
  /\ overlayState.x = R(250)

\* The step is the first touch-move after fingers of a recorded pinch lifted
\* and left one touch, with the remaining finger where it was at the lift,
\* on a ready, unlocked overlay.
FirstMoveAfterPinch ==
  /\ lastOp = "touchend"
  /\ Len(touches) = 1
  /\ pinchStartDistance >= 1
  /\ Ran("touchmove")
  /\ touches' = touches
  /\ overlayReady /\ ~overlayState.locked

\* C21 (no jump when a pinch degrades to a pan): after a pinch session in
\* which a touch-end leaves one touch, the first single-finger touch-move
\* with the pointer where the remaining finger was at the lift leaves
\* (x, y) and the scale unchanged.
C21_NoJumpAfterPinch ==
  [][FirstMoveAfterPinch
      => /\ overlayState'.x = overlayState.x
         /\ overlayState'.y = overlayState.y
         /\ overlayState'.scale = overlayState.scale]_vars

====
